---- MODULE Spec2Model ----
(***************************************************************************)
(* The nested tracking-scope runtime of @preact/signals-react              *)
(* (packages/react/runtime/src/index.ts): effect stores, the process-wide  *)
(* currentStore register, the start/finish state machine of                *)
(* createEffectStore, the microtask reaper (ensureFinalCleanup) and the    *)
(* host subscription adapter.                                              *)
(*                                                                         *)
(* The reactive substrate (@preact/signals-core: Effect, Signal) is not    *)
(* part of the sources at hand; it is modelled from its contract: one      *)
(* process-wide recording context, start-recording returning a closer      *)
(* that reinstates the context it displaced.                               *)
(***************************************************************************)
EXTENDS Integers, FiniteSets, Sequences, TLC

\* ---- bounds of the model ------------------------------------------------
NumStores == 2
NumSignals == 1
MaxBreaches == 1
MaxBumps == 2
NumBatchSignals == 2

\* ---- program constants --------------------------------------------------
UNMANAGED == 0
MANAGED_COMPONENT == 1
MANAGED_HOOK == 2

Stores == 1..NumStores
Signals == 1..NumSignals
Usages == {UNMANAGED, MANAGED_COMPONENT, MANAGED_HOOK}
\* `undefined` for a store reference / a host callback
None == 0
\* `undefined` for the endEffect closer; any other value of endEffect is a
\* closer, identified by the recording context it captured (None or a store)
NoCloser == 0 - 1

\* the range of `(version + 1) | 0`: a signed 32-bit integer
MaxInt32 == 2147483647
MinInt32 == (0 - 2147483647) - 1

VARIABLES
    created,              \* stores for which storeRef.current is set
    usage,                \* _usage of each store
    currentStore,         \* the register: None or a store
    version,              \* per store
    onChangeNotifyReact,  \* per store: TRUE when a host callback is registered
    doRestore,            \* per store
    prevStore,            \* per store: None or a store
    endEffect,            \* per store: NoCloser or the closer
    finalCleanup,         \* TRUE while the finalCleanup promise is set
    microtasks,           \* how many reaper callbacks the microtask queue holds
    evalContext,          \* substrate: the effect now recording reads, or None
    sources,              \* substrate: per effect, the signals it recorded
    before,               \* history: register just before the started store's acquisition
    last,                 \* history: the last operation on a store
    event,                \* output of the last step: callbacks that ran in it
    breaches,             \* history: how often callers broke the injected-code contract
    jsxCall               \* wrapJsx: its argument, its result and the wrapper's call

vars == <<created, usage, currentStore, version, onChangeNotifyReact, doRestore,
          prevStore, endEffect, finalCleanup, microtasks, evalContext, sources,
          before, last, event, breaches, jsxCall>>

\* ---- the part of the state that _start and f transform -------------------
Runtime ==
    [currentStore |-> currentStore, evalContext |-> evalContext,
     doRestore |-> doRestore, prevStore |-> prevStore,
     endEffect |-> endEffect, sources |-> sources]

SetRuntime(st) ==
    /\ currentStore' = st.currentStore
    /\ evalContext' = st.evalContext
    /\ doRestore' = st.doRestore
    /\ prevStore' = st.prevStore
    /\ endEffect' = st.endEffect
    /\ sources' = st.sources

\* ---- substrate: Tracking Effect ------------------------------------------
\* effect._start(): begin a fresh recording on effect s; it becomes the
\* process-wide recording context.
EffectStart(st, s) ==
    [st EXCEPT !.evalContext = s, !.sources[s] = {}]

\* the closer returned by effect._start(): it captures the context displaced
EffectCloser(st) == st.evalContext

\* invoking a closer: stop recording, reinstate the captured context
RunCloser(st, closer) ==
    [st EXCEPT !.evalContext = closer]

\* f with the doRestore test dropped: the register is always overwritten
StoreFinishAlwaysRestore(st, s) ==
    LET a == IF st.endEffect[s] # NoCloser THEN RunCloser(st, st.endEffect[s]) ELSE st
        b == [a EXCEPT !.currentStore = a.prevStore[s]]
    IN  [b EXCEPT !.prevStore[s] = None, !.endEffect[s] = NoCloser, !.doRestore[s] = FALSE]

\* f with the endEffect?.() call dropped: the recording is never released
StoreFinishKeepRecording(st, s) ==
    LET b == IF st.doRestore[s] THEN [st EXCEPT !.currentStore = st.prevStore[s]] ELSE st
    IN  [b EXCEPT !.prevStore[s] = None, !.endEffect[s] = NoCloser, !.doRestore[s] = FALSE]

\* f that releases the recording and restores the register but keeps its
\* bookkeeping
StoreFinishKeepsSaved(st, s) ==
    LET a == IF st.endEffect[s] # NoCloser THEN RunCloser(st, st.endEffect[s]) ELSE st
    IN  IF a.doRestore[s] THEN [a EXCEPT !.currentStore = a.prevStore[s]] ELSE a

\* f that clears its bookkeeping but never gives the register back
StoreFinishNoRestore(st, s) ==
    LET a == IF st.endEffect[s] # NoCloser THEN RunCloser(st, st.endEffect[s]) ELSE st
    IN  [a EXCEPT !.prevStore[s] = None, !.endEffect[s] = NoCloser, !.doRestore[s] = FALSE]

\* ---- createEffectStore.f --------------------------------------------------
StoreFinish(st, s) ==
    LET a == IF st.endEffect[s] # NoCloser THEN RunCloser(st, st.endEffect[s]) ELSE st
        b == IF a.doRestore[s] THEN [a EXCEPT !.currentStore = a.prevStore[s]] ELSE a
    IN  [b EXCEPT !.prevStore[s] = None, !.endEffect[s] = NoCloser, !.doRestore[s] = FALSE]

\* the starting branch with `currentStore = this` dropped
BeginStoreNoRegister(st, s, p) ==
    LET e == EffectStart(st, s)
    IN  [e EXCEPT !.doRestore[s] = TRUE, !.prevStore[s] = p,
                  !.endEffect[s] = EffectCloser(st)]

\* the three assignments every starting branch of _start shares:
\* doRestore = true; prevStore = p; endEffect = effect._start(); currentStore = this
BeginStore(st, s, p) ==
    LET e == EffectStart(st, s)
    IN  [e EXCEPT !.doRestore[s] = TRUE, !.prevStore[s] = p,
                  !.endEffect[s] = EffectCloser(st), !.currentStore = s]

\* _start whose 0 -> 0 / 0 -> 1 branch does not finish the previous store
StoreStartNoFinishPrev(st, s, use) ==
    IF st.currentStore = None
    THEN BeginStore(st, s, None)
    ELSE LET prevUsage == use[st.currentStore]
             thisUsage == use[s]
         IN  IF \/ (prevUsage = UNMANAGED /\ thisUsage = UNMANAGED)
                \/ (prevUsage = UNMANAGED /\ thisUsage = MANAGED_COMPONENT)
             THEN BeginStore(st, s, None)
             ELSE IF \/ (prevUsage = MANAGED_COMPONENT /\ thisUsage = UNMANAGED)
                     \/ (prevUsage = MANAGED_HOOK /\ thisUsage = UNMANAGED)
                  THEN st
                  ELSE BeginStore(st, s, st.currentStore)

\* _start without the 1 -> 0 / 2 -> 0 branch: an Unmanaged store nests
StoreStartNestUnmanaged(st, s, use) ==
    IF st.currentStore = None
    THEN BeginStore(st, s, None)
    ELSE LET prevUsage == use[st.currentStore]
             thisUsage == use[s]
         IN  IF \/ (prevUsage = UNMANAGED /\ thisUsage = UNMANAGED)
                \/ (prevUsage = UNMANAGED /\ thisUsage = MANAGED_COMPONENT)
             THEN BeginStore(StoreFinish(st, st.currentStore), s, None)
             ELSE BeginStore(st, s, st.currentStore)

\* _start whose 0 -> 0 branch keeps the displaced Unmanaged store open and
\* restores it afterwards
StoreStartStacksUnmanaged(st, s, use) ==
    IF st.currentStore = None
    THEN BeginStore(st, s, None)
    ELSE LET prevUsage == use[st.currentStore]
             thisUsage == use[s]
         IN  IF prevUsage = UNMANAGED /\ thisUsage = MANAGED_COMPONENT
             THEN BeginStore(StoreFinish(st, st.currentStore), s, None)
             ELSE IF \/ (prevUsage = MANAGED_COMPONENT /\ thisUsage = UNMANAGED)
                     \/ (prevUsage = MANAGED_HOOK /\ thisUsage = UNMANAGED)
                  THEN st
                  ELSE BeginStore(st, s, st.currentStore)

\* _start whose 0 -> 0 branch is folded into the active store like 1 -> 0
StoreStartFoldsUnmanaged(st, s, use) ==
    IF st.currentStore = None
    THEN BeginStore(st, s, None)
    ELSE LET prevUsage == use[st.currentStore]
             thisUsage == use[s]
         IN  IF prevUsage = UNMANAGED /\ thisUsage = MANAGED_COMPONENT
             THEN BeginStore(StoreFinish(st, st.currentStore), s, None)
             ELSE IF thisUsage = UNMANAGED
                  THEN st
                  ELSE BeginStore(st, s, st.currentStore)

\* _start whose nested branch forgets the store it displaces
StoreStartNoSave(st, s, use) ==
    IF st.currentStore = None
    THEN BeginStore(st, s, None)
    ELSE LET prevUsage == use[st.currentStore]
             thisUsage == use[s]
         IN  IF \/ (prevUsage = UNMANAGED /\ thisUsage = UNMANAGED)
                \/ (prevUsage = UNMANAGED /\ thisUsage = MANAGED_COMPONENT)
             THEN BeginStore(StoreFinish(st, st.currentStore), s, None)
             ELSE IF \/ (prevUsage = MANAGED_COMPONENT /\ thisUsage = UNMANAGED)
                     \/ (prevUsage = MANAGED_HOOK /\ thisUsage = UNMANAGED)
                  THEN st
                  ELSE BeginStore(st, s, None)

\* _start whose 0 -> 1 branch is widened to 0 -> 2: a hook finishes an
\* Unmanaged store instead of suspending it
StoreStartHookFinishesPrev(st, s, use) ==
    IF st.currentStore = None
    THEN BeginStore(st, s, None)
    ELSE LET prevUsage == use[st.currentStore]
             thisUsage == use[s]
         IN  IF prevUsage = UNMANAGED
             THEN BeginStore(StoreFinish(st, st.currentStore), s, None)
             ELSE IF \/ (prevUsage = MANAGED_COMPONENT /\ thisUsage = UNMANAGED)
                     \/ (prevUsage = MANAGED_HOOK /\ thisUsage = UNMANAGED)
                  THEN st
                  ELSE BeginStore(st, s, st.currentStore)

\* ---- createEffectStore._start ---------------------------------------------
StoreStart(st, s, use) ==
    IF st.currentStore = None
    THEN BeginStore(st, s, None)
    ELSE LET prevUsage == use[st.currentStore]
             thisUsage == use[s]
         IN  IF \/ (prevUsage = UNMANAGED /\ thisUsage = UNMANAGED)
                \/ (prevUsage = UNMANAGED /\ thisUsage = MANAGED_COMPONENT)
             THEN BeginStore(StoreFinish(st, st.currentStore), s, None)
             ELSE IF \/ (prevUsage = MANAGED_COMPONENT /\ thisUsage = UNMANAGED)
                     \/ (prevUsage = MANAGED_HOOK /\ thisUsage = UNMANAGED)
                  THEN st
                  ELSE BeginStore(st, s, st.currentStore)

\* ---- caller discipline (history) ------------------------------------------
\* callers have kept the injected-code contract so far
contract == breaches = 0

\* the history after a step that is, or is not, a breach of the contract; a
\* caller commits at most MaxBreaches breaches
Breach(bad) ==
    /\ bad => breaches < MaxBreaches
    /\ breaches' = IF bad THEN breaches + 1 ELSE breaches

Open(s) == endEffect[s] # NoCloser

\* a start() on a store that is already started, other than an Unmanaged store
\* that is the register (which _start finishes first), is a re-entrant call
ReentrantStart(s) == Open(s) /\ ~(s = currentStore /\ usage[s] = UNMANAGED)

\* a finish() on a started store that is not the innermost one
OutOfOrderFinish(s) == Open(s) /\ s # currentStore

\* the turn ends while a Managed store is still the register
ManagedLeak == currentStore # None /\ usage[currentStore] # UNMANAGED

\* the history `before` is kept for started stores while the contract holds
Remembered(st, ok, b) ==
    [t \in Stores |-> IF ok /\ st.endEffect[t] # NoCloser THEN b[t] ELSE None]

\* `was` of a finished store: the register its acquisition displaced, or
\* NotStarted when the store had no unfinished start
NotStarted == 0 - 1
Displaced(s) == IF Open(s) THEN before[s] ELSE NotStarted

\* the history `last` names the last start, finish or reaper run while the
\* contract holds
Op(ok, op, s, was) ==
    IF ok THEN [op |-> op, s |-> s, was |-> was]
    ELSE [op |-> "breach", s |-> None, was |-> None]

\* ---- wrapJsx: the values it handles -----------------------------------------
\* names of props; "children" is the one wrapJsx never touches
PropNames == {"children", "title"}

\* a prop's value: a Signal (v is the signal) or a plain value v
PropValues == [isSignal : BOOLEAN, v : 1..NumBatchSignals]

\* the current values signals can have, none of them a plain prop value
SignalValues == (NumBatchSignals + 1)..(NumBatchSignals + 2)

\* props: absent (null or undefined) or an object with some of the props
NoProps == [present |-> FALSE, map |-> [i \in {} |-> 0]]
Props ==
    {NoProps} \cup
    {[present |-> TRUE, map |-> m] : m \in UNION {[D -> PropValues] : D \in SUBSET PropNames}}

\* the element type: a string ("div") or not (a component)
Types == {[isString |-> TRUE, name |-> "div"], [isString |-> FALSE, name |-> "Component"]}

\* the argument of wrapJsx: a function or a value that is not one; a wrapper
\* is a function that wraps another
NoFunction == [isFunction |-> FALSE, id |-> 0, wraps |-> 0]
JsxArguments == {[isFunction |-> b, id |-> 1, wraps |-> 0] : b \in BOOLEAN}

NoPassed == [fn |-> 0, this |-> 0, type |-> [isString |-> FALSE, name |-> ""],
             props |-> NoProps, rest |-> <<>>]

\* no call of wrapJsx under way
NoJsx == [phase |-> "none"]

\* what a step that runs no callback puts out
NoEvent ==
    [fired |-> {}, calls |-> [s \in Stores |-> 0], seen |-> [s \in Stores |-> 0],
     wrote |-> {}]

\* useSignals, f, the reaper and a read run no callback
Quiet == event' = NoEvent

InitStores ==
    /\ event = NoEvent
    /\ created = {}
    /\ usage = [s \in Stores |-> UNMANAGED]
    /\ currentStore = None
    /\ version = [s \in Stores |-> 0]
    /\ onChangeNotifyReact = [s \in Stores |-> FALSE]
    /\ doRestore = [s \in Stores |-> FALSE]
    /\ prevStore = [s \in Stores |-> None]
    /\ endEffect = [s \in Stores |-> NoCloser]
    /\ finalCleanup = FALSE
    /\ microtasks = 0
    /\ evalContext = None
    /\ sources = [s \in Stores |-> {}]
    /\ before = [s \in Stores |-> None]
    /\ last = [op |-> "init", s |-> None, was |-> None]
    /\ breaches = 0

Init == InitStores /\ jsxCall = NoJsx

\* ---- ensureFinalCleanup and its microtask ----------------------------------
Queue == [finalCleanup |-> finalCleanup, microtasks |-> microtasks]

SetQueue(q) ==
    /\ finalCleanup' = q.finalCleanup
    /\ microtasks' = q.microtasks

\* ensureFinalCleanup without its `if (!finalCleanup)`
EnsureFinalCleanupAlways(q) ==
    [finalCleanup |-> TRUE, microtasks |-> q.microtasks + 1]

\* ensureFinalCleanup()
EnsureFinalCleanup(q) ==
    IF ~q.finalCleanup
    THEN [finalCleanup |-> TRUE, microtasks |-> q.microtasks + 1]
    ELSE q

\* the microtask forgets `finalCleanup = undefined`
FinalCleanupRunsKeepsFlag(q) ==
    [finalCleanup |-> q.finalCleanup, microtasks |-> q.microtasks - 1]

\* the microtask leaves the queue and runs `finalCleanup = undefined`
FinalCleanupRuns(q) ==
    [finalCleanup |-> FALSE, microtasks |-> q.microtasks - 1]

\* useSignals arms the reaper for an Unmanaged store only
ArmedByUnmanagedOnly(q, u) == IF u = UNMANAGED THEN EnsureFinalCleanup(q) ELSE q

\* useSignals(_usage) begins with ensureFinalCleanup(), whatever _usage is
ArmedBy(q, u) == EnsureFinalCleanup(q)

\* a storeRef that is overwritten with a new store on every call
StoreRefAlwaysCreates(c, use, s, u) == [use EXCEPT ![s] = u]

\* storeRef: the instance's store is created, with the usage of that call,
\* when the ref is still empty, and kept otherwise; the usages after the call
StoreRef(c, use, s, u) == IF s \in c THEN use ELSE [use EXCEPT ![s] = u]

\* ---- useSignals(_usage) for the instance owning store s --------------------
UseSignals(s, u) ==
    LET use == StoreRef(created, usage, s, u)
        next == StoreStart(Runtime, s, use)
        ok == contract /\ ~ReentrantStart(s)
    IN  /\ s \in created \/ \A t \in 1..(s - 1) : t \in created
        /\ SetQueue(ArmedBy(Queue, u))
        /\ created' = created \cup {s}
        /\ usage' = use
        /\ SetRuntime(next)
        /\ Breach(ReentrantStart(s))
        /\ before' = Remembered(next, ok, [before EXCEPT ![s] = currentStore])
        /\ last' = Op(ok, "start", s, currentStore)
        /\ UNCHANGED <<version, onChangeNotifyReact, jsxCall>>
        /\ Quiet

\* ---- store.f() / store[Symbol.dispose]() -----------------------------------
Finish(s) ==
    /\ s \in created
    /\ SetRuntime(StoreFinish(Runtime, s))
    /\ Breach(OutOfOrderFinish(s))
    /\ before' = Remembered(StoreFinish(Runtime, s), contract /\ ~OutOfOrderFinish(s), before)
    /\ last' = Op(contract /\ ~OutOfOrderFinish(s), "finish", s, Displaced(s))
    /\ UNCHANGED <<created, usage, version, onChangeNotifyReact, finalCleanup, microtasks,
                   jsxCall>>
    /\ Quiet

\* [symDispose] that does nothing
StoreDisposeNothing(st, s) == st

\* [symDispose]() { this.f(); }
StoreDispose(st, s) == StoreFinish(st, s)

\* leaving a `using` block
Dispose(s) ==
    /\ s \in created
    /\ SetRuntime(StoreDispose(Runtime, s))
    /\ Breach(OutOfOrderFinish(s))
    /\ before' = Remembered(StoreDispose(Runtime, s), contract /\ ~OutOfOrderFinish(s), before)
    /\ last' = Op(contract /\ ~OutOfOrderFinish(s), "dispose", s, Displaced(s))
    /\ UNCHANGED <<created, usage, version, onChangeNotifyReact, finalCleanup, microtasks,
                   jsxCall>>
    /\ Quiet

\* ---- the microtask queued by ensureFinalCleanup ----------------------------
\* the reaper forgets to finish the register's store
CleanupNoFinish(st) == st

\* a reaper that, finding the register empty, drops what finished stores
\* have recorded
CleanupDropsRecordings(st) ==
    IF st.currentStore # None
    THEN StoreFinish(st, st.currentStore)
    ELSE [st EXCEPT !.sources = [s \in Stores |-> {}]]

\* the microtask's body: currentStore?.f()
Cleanup(st) ==
    IF st.currentStore # None THEN StoreFinish(st, st.currentStore) ELSE st

Reaper ==
    /\ microtasks > 0
    /\ SetQueue(FinalCleanupRuns(Queue))
    /\ SetRuntime(Cleanup(Runtime))
    /\ Breach(ManagedLeak)
    /\ before' = Remembered(Cleanup(Runtime), contract /\ ~ManagedLeak, before)
    /\ last' = Op(contract /\ ~ManagedLeak, "reaper", currentStore, None)
    /\ UNCHANGED <<created, usage, version, onChangeNotifyReact, jsxCall>>
    /\ Quiet

\* ---- substrate: signal.value read ------------------------------------------
\* the recording context, if any, records the signal
RecordRead(st, g) ==
    IF st.evalContext # None
    THEN [st EXCEPT !.sources[st.evalContext] = @ \cup {g}]
    ELSE st

Read(g) ==
    /\ sources' = RecordRead(Runtime, g).sources
    /\ UNCHANGED <<created, usage, currentStore, version, onChangeNotifyReact,
                   doRestore, prevStore, endEffect, finalCleanup, microtasks,
                   evalContext, before, last, breaches, jsxCall>>
    /\ Quiet

\* the modes a call of useSignals for store s can pass: any for the first
\* call; later calls pass modes that storeRef ignores, for which the store's
\* own stands
ModesFor(s) == IF s \in created THEN {usage[s]} ELSE Usages

Next ==
    \/ \E s \in Stores : \E u \in ModesFor(s) : UseSignals(s, u)
    \/ \E s \in Stores : Finish(s)
    \/ Reaper
    \/ \E g \in Signals : Read(g)

\* every call sequence, with at most MaxBreaches breaches of the contract
Spec == Init /\ [][Next]_vars

\* the call sequences of callers that keep the injected-code contract: every
\* start is matched, finishes come innermost first, no re-entrant start, and a
\* turn ends only when the Managed stores are finished
NextContract ==
    \/ \E s \in Stores, u \in Usages : UseSignals(s, u) /\ breaches' = 0
    \/ \E s \in Stores : Finish(s) /\ breaches' = 0
    \/ \E s \in Stores : Dispose(s) /\ breaches' = 0
    \/ Reaper /\ breaches' = 0
    \/ \E g \in Signals : Read(g)

SpecContract == Init /\ [][NextContract]_vars

\* ---- vocabulary of the claims ----------------------------------------------
Managed(s) == usage[s] # UNMANAGED
Recording(s) == evalContext = s
StartOf(n) == last.op = "start" /\ last.s = n
FinishOf(n) == last.op = "finish" /\ last.s = n

\* the variables of the program (all but the histories)
progVars == <<created, usage, currentStore, version, onChangeNotifyReact, doRestore,
              prevStore, endEffect, finalCleanup, evalContext, sources>>

\* ---- C1 ---------------------------------------------------------------------
\* C1: while callers keep the contract, a read of a signal is recorded by the
\* store held in the register at the moment of the read and by no other store
\* (by none when the register is empty).
C1_ReadAttributedToRegister ==
    [][\A g \in Signals :
          Read(g) =>
              sources' = IF currentStore = None THEN sources
                         ELSE [sources EXCEPT ![currentStore] = @ \cup {g}]]_vars

\* a read was recorded by the register's store and not by the started store it
\* suspended
C1_Witness ==
    \E g \in Signals :
        /\ currentStore # None
        /\ before[currentStore] # None
        /\ before[currentStore] # currentStore
        /\ Open(before[currentStore])
        /\ g \in sources[currentStore]
        /\ g \notin sources[before[currentStore]]

\* ---- C2 ---------------------------------------------------------------------
\* C2: while callers keep the contract, the store recording reads is the one
\* in the register, and no store records reads when the register is empty.
C2_OnlyRegisterRecords ==
    \A s \in Stores : Recording(s) <=> currentStore = s

\* the register's store records reads while another started store is suspended
\* beneath it and does not
C2_Witness ==
    /\ currentStore # None
    /\ Recording(currentStore)
    /\ \E c \in Stores : c # currentStore /\ Open(c) /\ ~Recording(c)

\* ---- C3 ---------------------------------------------------------------------
\* C3 as stated: the finish of a started Managed store makes the register hold
\* what it held just before that store's start.
C3_FinishRestoresRegisterBeforeStart ==
    \A n \in Stores :
        (FinishOf(n) /\ Managed(n) /\ last.was # NotStarted)
            => currentStore = last.was

\* C3 amended: the finish of a started Managed store makes the register hold
\* what it held just before that store's start, except that a ManagedComponent
\* store started over an Unmanaged one (which that start finished) leaves the
\* register empty.
C3_FinishRestoresUnlessComponentOverUnmanaged ==
    \A n \in Stores :
        (FinishOf(n) /\ Managed(n) /\ last.was # NotStarted)
            => currentStore =
                 IF /\ last.was # None
                    /\ usage[last.was] = UNMANAGED
                    /\ usage[n] = MANAGED_COMPONENT
                 THEN None ELSE last.was

\* a Managed store has finished and a suspended store is the register again
C3_Witness ==
    \E n \in Stores :
        /\ FinishOf(n) /\ Managed(n)
        /\ last.was # NotStarted /\ last.was # None
        /\ currentStore = last.was

\* ---- C4 ---------------------------------------------------------------------
\* C4: after the start of an Unmanaged store n while a Managed store c is the
\* register, and after any reads that follow, c is still the register and the
\* store recording reads, n has no recording of its own, and n.f() changes
\* nothing.
C4_UnmanagedFoldsIntoManaged ==
    \A n \in Stores :
        (StartOf(n) /\ ~Managed(n) /\ last.was # None /\ Managed(last.was))
            => /\ currentStore = last.was
               /\ Recording(last.was)
               /\ ~Open(n)
               /\ StoreFinish(Runtime, n) = Runtime

\* an Unmanaged start was folded into a Managed store, which recorded a read
C4_Witness ==
    \E n \in Stores :
        /\ StartOf(n) /\ ~Managed(n) /\ last.was # None /\ Managed(last.was)
        /\ sources[last.was] # {}

\* ---- C5 ---------------------------------------------------------------------
\* C5: after the start of an Unmanaged store n while an Unmanaged store c is
\* the register, c is finished (no recording, bookkeeping cleared), n's
\* recording displaced no other recording (c's was released before n's began),
\* and the register holds n with nothing saved.
C5_UnmanagedFinishesUnmanaged ==
    \A n \in Stores :
        (StartOf(n) /\ ~Managed(n) /\ last.was # None /\ ~Managed(last.was))
            => /\ currentStore = n
               /\ Recording(n)
               /\ prevStore[n] = None
               /\ endEffect[n] = None
               /\ last.was # n =>
                      /\ ~Open(last.was)
                      /\ ~doRestore[last.was]
                      /\ prevStore[last.was] = None
                      /\ ~Recording(last.was)

\* an Unmanaged store replaced another Unmanaged store
C5_Witness ==
    \E n \in Stores :
        /\ StartOf(n) /\ ~Managed(n)
        /\ last.was # None /\ last.was # n /\ ~Managed(last.was)
        /\ currentStore = n

\* ---- C6 ---------------------------------------------------------------------
\* the pairs (mode of the register's store, mode of the new store) that nest
NestingPair(c, n) ==
    \/ usage[c] = UNMANAGED /\ usage[n] = MANAGED_HOOK
    \/ usage[c] = MANAGED_COMPONENT /\ usage[n] = MANAGED_COMPONENT
    \/ usage[c] = MANAGED_COMPONENT /\ usage[n] = MANAGED_HOOK
    \/ usage[c] = MANAGED_HOOK /\ usage[n] = MANAGED_COMPONENT
    \/ usage[c] = MANAGED_HOOK /\ usage[n] = MANAGED_HOOK

\* C6: for a nesting pair, the start of n leaves c started, saves c and makes
\* n the register and the recording store; n.f() then, and n's finish
\* whenever it comes, makes c the register and the recording store again.
C6_NestedStartSuspendsAndRestores ==
    \A n \in Stores :
        /\ (StartOf(n) /\ last.was # None /\ NestingPair(last.was, n))
              => /\ currentStore = n
                 /\ Recording(n)
                 /\ prevStore[n] = last.was
                 /\ Open(last.was)
                 /\ StoreFinish(Runtime, n).currentStore = last.was
                 /\ StoreFinish(Runtime, n).evalContext = last.was
        /\ (FinishOf(n) /\ last.was # NotStarted /\ last.was # None
               /\ NestingPair(last.was, n))
              => /\ currentStore = last.was
                 /\ Recording(last.was)
                 /\ Open(last.was)

\* a hook's store was finished over an Unmanaged store, which records again
C6_Witness ==
    \E n \in Stores :
        /\ FinishOf(n) /\ usage[n] = MANAGED_HOOK
        /\ last.was # NotStarted /\ last.was # None
        /\ usage[last.was] = UNMANAGED
        /\ Recording(last.was)

\* ---- C7 ---------------------------------------------------------------------
\* C7: the start of a ManagedComponent store n over an Unmanaged store c
\* finishes c and saves nothing; after n's finish the register is empty and c
\* is not started.
C7_ComponentFinishesUnmanaged ==
    \A n \in Stores :
        /\ (StartOf(n) /\ usage[n] = MANAGED_COMPONENT
               /\ last.was # None /\ ~Managed(last.was))
              => /\ currentStore = n
                 /\ Recording(n)
                 /\ prevStore[n] = None
                 /\ endEffect[n] = None
                 /\ ~Open(last.was)
        /\ (FinishOf(n) /\ usage[n] = MANAGED_COMPONENT
               /\ last.was # NotStarted /\ last.was # None /\ ~Managed(last.was))
              => /\ currentStore = None
                 /\ evalContext = None
                 /\ ~Open(last.was)

\* a ManagedComponent store started over an Unmanaged one has finished
C7_Witness ==
    \E n \in Stores :
        /\ FinishOf(n) /\ usage[n] = MANAGED_COMPONENT
        /\ last.was # NotStarted /\ last.was # None /\ ~Managed(last.was)
        /\ currentStore = None

\* ---- C8 ---------------------------------------------------------------------
\* C8: the start of a store n of any mode with the register empty makes n the
\* register and the only recording store with nothing saved, and the matching
\* finish leaves the register empty.
C8_FirstStore ==
    \A n \in Stores :
        /\ (StartOf(n) /\ last.was = None)
              => /\ currentStore = n
                 /\ Recording(n)
                 /\ Open(n)
                 /\ prevStore[n] = None
                 /\ \A c \in Stores \ {n} : ~Open(c)
                 /\ StoreFinish(Runtime, n).currentStore = None
        /\ (FinishOf(n) /\ last.was = None)
              => currentStore = None /\ evalContext = None

\* a Managed store started on an empty register has finished
C8_Witness ==
    \E n \in Stores :
        FinishOf(n) /\ last.was = None /\ Managed(n) /\ currentStore = None

\* ---- C9 ---------------------------------------------------------------------
\* C9 as stated: from every reachable state, f() on a store leaves the
\* register holding the store saved by that store's start, and empty when
\* none was saved.
C9_FinishSetsRegisterToSaved ==
    \A s \in created : StoreFinish(Runtime, s).currentStore = prevStore[s]

\* C9 amended: from every reachable state, f() on a store leaves it without a
\* recording of its own; if the store had an unfinished start, the register
\* afterwards holds the store that start saved (empty when none was saved); if
\* it had none, the register is left as it was. Where the callers have kept
\* the contract, the store is not the recording store afterwards.
C9_FinishRestoresOnlyIfStarted ==
    \A s \in created :
        LET st == StoreFinish(Runtime, s)
        IN  /\ st.endEffect[s] = NoCloser
            /\ st.currentStore = IF Open(s) THEN prevStore[s] ELSE currentStore
            /\ (contract /\ ~OutOfOrderFinish(s)) => st.evalContext # s

\* an f() of a store with no unfinished start has left another store in the
\* register
C9_Witness ==
    \E n \in Stores :
        FinishOf(n) /\ last.was = NotStarted /\ currentStore # None

\* ---- C10 --------------------------------------------------------------------
\* C10: from every reachable state, f() on a store with no unfinished start
\* changes nothing: register, recording context, every store's bookkeeping
\* and recorded sources stay as they were (f writes nothing else).
C10_FinishIdempotent ==
    \A s \in created : ~Open(s) => StoreFinish(Runtime, s) = Runtime

\* an f() on a store with no unfinished start while a different, started store
\* is the register
C10_Witness ==
    \E n \in Stores :
        /\ FinishOf(n) /\ last.was = NotStarted
        /\ currentStore # None /\ currentStore # n
        /\ Open(currentStore)

\* ---- the reaper --------------------------------------------------------------
\* C11: an Unmanaged store that was started and not finished has the reaper
\* pending, and once the reaper has run the register is empty, the store
\* holds no closer and it is not the recording context.
C11_UnmanagedLeakReaped ==
    \A s \in created :
        usage[s] = UNMANAGED =>
            /\ Open(s) => finalCleanup
            /\ last.op = "reaper" =>
                   currentStore = None /\ ~Open(s) /\ ~Recording(s)

\* the reaper has just finished an Unmanaged store that had recorded a read
C11_Witness ==
    /\ last.op = "reaper"
    /\ last.s # None
    /\ usage[last.s] = UNMANAGED
    /\ sources[last.s] # {}

\* C12: whatever was left unfinished (every store started at most once), the
\* reaper's run leaves the register empty and no store recording.
C12_ReaperEmptiesRegister ==
    (contract /\ finalCleanup) =>
        /\ Cleanup(Runtime).currentStore = None
        /\ Cleanup(Runtime).evalContext = None

\* the signals the host specification reads and writes
BatchSignals == 1..NumBatchSignals

\* ---- the host adapter: subscribe, getSnapshot, the effect's callback ---------
\* n + 1 brought back into the signed range whose largest value is max
IncWrap(v, max) == IF v = max THEN (0 - max) - 1 ELSE v + 1

\* an increment that stops at the largest value
Inc32Saturates(v) == IF v = MaxInt32 THEN MaxInt32 ELSE v + 1

\* (version + 1) | 0
Inc32(v) == IncWrap(v, MaxInt32)

\* how many increments a version is away from the value its run began with
Bumps(v) == IF v = MaxInt32 THEN 0 ELSE IF v < 0 THEN (v - MinInt32) + 1 ELSE v

\* the part of the state the adapter's functions transform, with their output
Host ==
    [version |-> version, onChange |-> onChangeNotifyReact,
     sources |-> sources, event |-> NoEvent]

SetHost(h) ==
    /\ version' = h.version
    /\ onChangeNotifyReact' = h.onChange
    /\ sources' = h.sources
    /\ event' = h.event

\* onChangeNotifyReact(): the host is called and reads the snapshot
CallHost(h, s) ==
    [h EXCEPT !.event.calls[s] = @ + 1, !.event.seen[s] = h.version[s]]

\* the callback forgets the version
EffectCallbackNoVersion(h, s) ==
    LET fired == [h EXCEPT !.event.fired = @ \cup {s}]
    IN  IF fired.onChange[s] THEN CallHost(fired, s) ELSE fired

\* the callback calls the host twice
EffectCallbackTwice(h, s) ==
    LET bumped == [h EXCEPT !.version[s] = Inc32(@), !.event.fired = @ \cup {s}]
    IN  IF bumped.onChange[s] THEN CallHost(CallHost(bumped, s), s) ELSE bumped

\* the callback calls a host that is not registered
EffectCallbackAlwaysCalls(h, s) ==
    LET bumped == [h EXCEPT !.version[s] = Inc32(@), !.event.fired = @ \cup {s}]
    IN  CallHost(bumped, s)

\* the callback calls the host before it increments the version
EffectCallbackCallsFirst(h, s) ==
    LET called == IF h.onChange[s] THEN CallHost(h, s) ELSE h
    IN  [called EXCEPT !.version[s] = Inc32(@), !.event.fired = @ \cup {s}]

\* effectInstance._callback: the version is incremented, then the host, if
\* one is registered, is called
EffectCallback(h, s) ==
    LET bumped == [h EXCEPT !.version[s] = Inc32(@), !.event.fired = @ \cup {s}]
    IN  IF bumped.onChange[s] THEN CallHost(bumped, s) ELSE bumped

\* substrate: the effects a batch of writes to W notifies, once each
Notified(h, W) == {s \in Stores : h.sources[s] \cap W # {}}

RECURSIVE RunCallbacks(_, _)
RunCallbacks(h, N) ==
    IF N = {} THEN h
    ELSE LET s == CHOOSE x \in N : TRUE
         IN  RunCallbacks(EffectCallback(h, s), N \ {s})

\* subscribe calls the host at once
SubscribeStoreCalls(h, s) ==
    CallHost([h EXCEPT !.onChange[s] = TRUE], s)

\* subscribe increments the version
SubscribeStoreBumps(h, s) ==
    [h EXCEPT !.onChange[s] = TRUE, !.version[s] = Inc32(@)]

\* subscribe(onStoreChange)
SubscribeStore(h, s) == [h EXCEPT !.onChange[s] = TRUE]

\* the unsubscribe function leaves the version alone
UnsubscribeStoreNoVersion(h, s) ==
    [h EXCEPT !.onChange[s] = FALSE, !.sources[s] = {}]

\* the unsubscribe function without its unsubscribe() call: the effect stays
\* attached to its sources
UnsubscribeStoreKeepsEffect(h, s) ==
    [h EXCEPT !.version[s] = Inc32(@), !.onChange[s] = FALSE]

\* the unsubscribe function increments the version twice
UnsubscribeStoreBumpsTwice(h, s) ==
    [h EXCEPT !.version[s] = Inc32(Inc32(@)), !.onChange[s] = FALSE, !.sources[s] = {}]

\* the function subscribe returns; unsubscribe() disposes the effect
UnsubscribeStore(h, s) ==
    [h EXCEPT !.version[s] = Inc32(@), !.onChange[s] = FALSE, !.sources[s] = {}]

\* getSnapshot counts its calls
GetSnapshotStoreCounts(h, s) ==
    [value |-> h.version[s], host |-> [h EXCEPT !.version[s] = Inc32(@)]]

\* getSnapshot(): the value returned and the state left
GetSnapshotStore(h, s) == [value |-> h.version[s], host |-> h]

\* the version increments made so far, over all stores
RECURSIVE TotalBumps(_)
TotalBumps(S) ==
    IF S = {} THEN 0
    ELSE LET s == CHOOSE x \in S : TRUE
         IN  Bumps(version[s]) + TotalBumps(S \ {s})

coreVars ==
    <<created, usage, currentStore, doRestore, prevStore, endEffect,
      finalCleanup, microtasks, evalContext, before, breaches, jsxCall>>

Subscribe(s) ==
    /\ s \in created
    /\ SetHost(SubscribeStore(Host, s))
    /\ last' = [op |-> "subscribe", s |-> s, was |-> None]
    /\ UNCHANGED coreVars

Unsubscribe(s) ==
    /\ s \in created
    /\ onChangeNotifyReact[s]
    /\ TotalBumps(Stores) < MaxBumps
    /\ SetHost(UnsubscribeStore(Host, s))
    /\ last' = [op |-> "unsubscribe", s |-> s, was |-> Cardinality(sources[s])]
    /\ UNCHANGED coreVars

GetSnapshot(s) ==
    /\ s \in created
    /\ SetHost(GetSnapshotStore(Host, s).host)
    /\ last' = [op |-> "getSnapshot", s |-> s, was |-> GetSnapshotStore(Host, s).value]
    /\ UNCHANGED coreVars

\* substrate: one batch of writes of new values to the signals in W
Write(W) ==
    /\ TotalBumps(Stores) + Cardinality(Notified(Host, W)) <= MaxBumps
    /\ SetHost([RunCallbacks(Host, Notified(Host, W)) EXCEPT !.event.wrote = W])
    /\ last' = [op |-> "write", s |-> None, was |-> None]
    /\ UNCHANGED coreVars

\* stores that have been through MaxInt32 version increments
InitAged ==
    /\ event = NoEvent
    /\ created = Stores
    /\ usage = [s \in Stores |-> UNMANAGED]
    /\ version = [s \in Stores |-> MaxInt32]
    /\ currentStore = None
    /\ onChangeNotifyReact = [s \in Stores |-> FALSE]
    /\ doRestore = [s \in Stores |-> FALSE]
    /\ prevStore = [s \in Stores |-> None]
    /\ endEffect = [s \in Stores |-> NoCloser]
    /\ finalCleanup = FALSE
    /\ microtasks = 0
    /\ evalContext = None
    /\ sources = [s \in Stores |-> {}]
    /\ before = [s \in Stores |-> None]
    /\ last = [op |-> "init", s |-> None, was |-> None]
    /\ breaches = 0
    /\ jsxCall = NoJsx

InitHost == Init \/ InitAged

\* the host renders one instance at a time: useSignals() with the register
\* empty, reads, then f(), the disposal hook or the reaper
NextHost ==
    \/ \E s \in Stores : currentStore = None /\ UseSignals(s, UNMANAGED) /\ breaches' = 0
    \/ \E s \in Stores : s = currentStore /\ Finish(s) /\ breaches' = 0
    \/ \E s \in Stores : s = currentStore /\ Dispose(s) /\ breaches' = 0
    \/ Reaper /\ breaches' = 0
    \/ \E g \in BatchSignals : Read(g)
    \/ \E s \in Stores : Subscribe(s)
    \/ \E s \in Stores : Unsubscribe(s)
    \/ \E s \in Stores : GetSnapshot(s)
    \/ \E W \in SUBSET BatchSignals \ {{}} : Write(W)

SpecHost == InitHost /\ [][NextHost]_vars

\* ---- claims on the host adapter --------------------------------------------
\* C13: one write, or one batch of writes to the signals in W, runs the
\* callback of every store that recorded a signal of W exactly once: its
\* version is incremented once and its registered onChange is invoked once;
\* a store that recorded no signal of W keeps its version and is not called.
C13_BatchNotifiesRecordersOnce ==
    \A W \in SUBSET BatchSignals \ {{}} :
        LET h == RunCallbacks(Host, Notified(Host, W))
        IN  \A s \in Stores :
                IF sources[s] \cap W # {}
                THEN /\ h.version[s] = Inc32(version[s])
                     /\ s \in h.event.fired
                     /\ h.event.calls[s] = IF onChangeNotifyReact[s] THEN 1 ELSE 0
                ELSE /\ h.version[s] = version[s]
                     /\ s \notin h.event.fired
                     /\ h.event.calls[s] = 0

\* a batch wrote two signals a finished, subscribed store had recorded: it
\* was called once, and another subscribed store was not
C13_Witness ==
    /\ last.op = "write"
    /\ \E s \in Stores, t \in Stores :
        /\ s # t
        /\ ~Open(s)
        /\ onChangeNotifyReact[s] /\ onChangeNotifyReact[t]
        /\ Cardinality(sources[s] \cap event.wrote) >= 2
        /\ event.calls[s] = 1
        /\ event.fired = {s}
        /\ event.calls[t] = 0

\* C14: one run of a store's effect callback adds one to its version,
\* wrapping from MaxInt32 to MinInt32, calls the registered onChange once in
\* the same step, calls nothing when none is registered, and touches no
\* other store.
C14_CallbackBumpsAndCallsOnce ==
    \A s \in Stores :
        LET h == EffectCallback(Host, s)
        IN  /\ h.version[s] = IF version[s] = MaxInt32 THEN MinInt32 ELSE version[s] + 1
            /\ h.event.calls[s] = IF onChangeNotifyReact[s] THEN 1 ELSE 0
            /\ h.event.fired = {s}
            /\ h.onChange = onChangeNotifyReact
            /\ h.sources = sources
            /\ \A t \in Stores \ {s} :
                   h.version[t] = version[t] /\ h.event.calls[t] = 0

\* a callback has just wrapped the version of a subscribed store
C14_Witness ==
    /\ last.op = "write"
    /\ \E s \in event.fired :
        /\ version[s] = MinInt32
        /\ onChangeNotifyReact[s]
        /\ event.calls[s] = 1

\* C15: the unsubscribe function changes what getSnapshot returns in every
\* state, with or without recorded sources, and a getSnapshot after
\* subscribing again still differs from the one before unsubscribing.
C15_UnsubscribeChangesSnapshot ==
    \A s \in Stores :
        LET old  == GetSnapshotStore(Host, s).value
            off  == UnsubscribeStore(Host, s)
            back == SubscribeStore(off, s)
        IN  /\ GetSnapshotStore(off, s).value # old
            /\ GetSnapshotStore(back, s).value # old
            /\ back.onChange[s]

\* unsubscribe has just run on a store no write had ever notified
C15_Witness ==
    /\ last.op = "unsubscribe"
    /\ version[last.s] = 1
    /\ ~onChangeNotifyReact[last.s]
    /\ event.fired = {}

\* C16: getSnapshot after a run of the store's effect callback returns the
\* value it returned before plus one modulo 2^32, never the same value.
C16_SnapshotChangesAfterCallback ==
    \A s \in Stores :
        LET old == GetSnapshotStore(Host, s).value
            new == GetSnapshotStore(EffectCallback(Host, s), s).value
        IN  /\ new # old
            /\ new = Inc32(old)

\* a callback has just incremented the version of a store no host listens to
C16_Witness ==
    /\ last.op = "write"
    /\ \E s \in event.fired :
        /\ version[s] = 1
        /\ ~onChangeNotifyReact[s]
        /\ GetSnapshotStore(Host, s).value = 1

\* C17 as claimed: every step that changes a store's version runs that
\* store's effect callback.
C17_VersionChangesOnlyByCallback ==
    [][\A s \in Stores : version'[s] # version[s] => s \in event'.fired]_vars

\* C17: every step that changes a store's version runs that store's effect
\* callback or is that store's unsubscribe function.
C17_VersionChangesOnlyByCallbackOrUnsubscribe ==
    [][\A s \in Stores :
           version'[s] # version[s] =>
               \/ s \in event'.fired
               \/ last'.op = "unsubscribe" /\ last'.s = s]_vars

\* one store's version was changed by its callback, another's by unsubscribe
C17_Witness ==
    /\ last.op = "unsubscribe"
    /\ \E t \in Stores \ {last.s} : Bumps(version[t]) = 1
    /\ Bumps(version[last.s]) = 1

\* C18: a step calls a store's onChange only by running that store's effect
\* callback in a write; subscribe, unsubscribe and getSnapshot call nothing.
C18_HostCalledOnlyFromCallback ==
    /\ \A s \in Stores :
        /\ event.calls[s] > 0 => (s \in event.fired /\ last.op = "write")
        /\ SubscribeStore(Host, s).event = NoEvent
        /\ UnsubscribeStore(Host, s).event = NoEvent
        /\ GetSnapshotStore(Host, s).host.event = NoEvent
    /\ last.op \in {"start", "finish", "reaper", "subscribe", "unsubscribe",
                    "getSnapshot", "init", "breach"} => event = NoEvent

\* subscribe has just run on a store whose recorded signal a write can reach
C18_Witness ==
    /\ last.op = "subscribe"
    /\ sources[last.s] # {}
    /\ onChangeNotifyReact[last.s]

\* C19: getSnapshot returns the store's version and leaves the state as it
\* was, so a second call returns the same value.
C19_GetSnapshotPure ==
    /\ \A s \in Stores :
        LET r == GetSnapshotStore(Host, s)
        IN  /\ r.value = version[s]
            /\ r.host = Host
            /\ GetSnapshotStore(r.host, s).value = r.value
    /\ last.op = "getSnapshot" => (last.was = version[last.s] /\ event = NoEvent)

\* getSnapshot has just returned a version that unsubscribe had changed
C19_Witness ==
    /\ last.op = "getSnapshot"
    /\ last.was # 0
    /\ last.was # MaxInt32
    /\ ~onChangeNotifyReact[last.s]

\* ---- the shape the transform emits -----------------------------------------
\* C20 as claimed: after a component or a hook of a render has acquired its
\* Unmanaged store, that store is the one that records the reads that follow.
C20_RenderRecordsItsReads ==
    (last.op = "start" /\ usage[last.s] = UNMANAGED) => Recording(last.s)

\* C20: after a component or a hook has acquired its Unmanaged store while
\* the register held no Managed store, that store is in the register and
\* records the reads that follow, and neither a later acquisition of another
\* store nor a finish drops the signals a store has recorded.
C20_RenderRecordsItsReadsUnlessFolded ==
    /\ (/\ last.op = "start"
        /\ usage[last.s] = UNMANAGED
        /\ (last.was = None \/ usage[last.was] = UNMANAGED))
       => (currentStore = last.s /\ Recording(last.s) /\ Open(last.s))
    /\ \A s \in Stores :
        /\ StoreFinish(Runtime, s).sources = sources
        /\ \A t \in Stores \ {s} : StoreStart(Runtime, t, usage).sources[s] = sources[s]

\* a hook has acquired its store after the component read a signal under its
\* own; the component's store is finished and the hook's store has recorded a
\* read of the body that follows
C20_Witness ==
    /\ last.op = "start"
    /\ usage[last.s] = UNMANAGED
    /\ last.was # None
    /\ usage[last.was] = UNMANAGED
    /\ ~Open(last.was)
    /\ sources[last.was] # {}
    /\ sources[last.s] # {}

\* ---- SignalValue -----------------------------------------------------------
\* C21: from a register that is empty or holds an Unmanaged store,
\* SignalValue (useSignals(), read data.value, f() in finally) records the
\* read under its own Unmanaged store, leaves the register empty whether the
\* read returned or threw, and a later write to the signal notifies that store.
C21_SignalValueRecordsAndEmpties ==
    (currentStore = None \/ usage[currentStore] = UNMANAGED) =>
        \A s \in Stores, g \in Signals :
            usage[s] = UNMANAGED =>
                LET started  == StoreStart(Runtime, s, usage)
                    returned == StoreFinish(RecordRead(started, g), s)
                    thrown   == StoreFinish(started, s)
                IN  /\ started.currentStore = s
                    /\ started.evalContext = s
                    /\ g \in returned.sources[s]
                    /\ returned.currentStore = None
                    /\ returned.endEffect[s] = NoCloser
                    /\ thrown.currentStore = None
                    /\ thrown.endEffect[s] = NoCloser
                    /\ s \in Notified(returned, {g})

\* a store acquired over an Unmanaged store has recorded a read and been
\* finished, leaving the register empty
C21_Witness ==
    /\ last.op = "finish"
    /\ usage[last.s] = UNMANAGED
    /\ last.was # None
    /\ last.was # NotStarted
    /\ last.was # last.s
    /\ usage[last.was] = UNMANAGED
    /\ sources[last.s] # {}
    /\ currentStore = None

\* ---- the disposal hook -----------------------------------------------------
\* C22: in every state, [Symbol.dispose] on a store yields the state f() on
\* that store yields: the same register, bookkeeping, recording context and
\* recorded sources, and no version or host callback is touched.
C22_DisposeIsFinish ==
    /\ \A s \in Stores : StoreDispose(Runtime, s) = StoreFinish(Runtime, s)
    /\ last.op = "dispose" =>
           /\ ~Open(last.s)
           /\ ~Recording(last.s)
           /\ event = NoEvent

\* leaving a `using` block has finished a nested hook's store and restored
\* the component's
C22_Witness ==
    /\ last.op = "dispose"
    /\ usage[last.s] = MANAGED_HOOK
    /\ last.was # None
    /\ last.was # NotStarted
    /\ currentStore = last.was
    /\ Recording(last.was)

\* ---- the reaper's scheduling -----------------------------------------------
\* C24: the microtask queue never holds more than one reaper callback, and
\* holds one exactly while finalCleanup is set; a further acquisition while
\* one is pending queues nothing, and the run of the callback leaves nothing
\* pending.
C24_AtMostOneReaperPending ==
    /\ microtasks \in {0, 1}
    /\ finalCleanup <=> microtasks = 1
    /\ \A u \in Usages :
           ArmedBy(ArmedBy(Queue, u), u) = ArmedBy(Queue, u)
    /\ EnsureFinalCleanup(Queue).microtasks = 1
    /\ microtasks > 0 =>
           FinalCleanupRuns(Queue) = [finalCleanup |-> FALSE, microtasks |-> 0]

\* a second store was acquired in a turn whose reaper was already pending
C24_Witness ==
    /\ last.op = "start"
    /\ last.was # None
    /\ last.was # last.s
    /\ microtasks = 1

\* the scheduling of the reaper: callers keep the contract and read no
\* signal, every render returns (each started store is finished in the end)
\* and the microtask queue is drained whenever the synchronous turn has ended
NextLive ==
    \/ \E s \in Stores, u \in Usages : UseSignals(s, u) /\ breaches' = 0
    \/ \E s \in Stores : Finish(s) /\ breaches' = 0
    \/ \E s \in Stores : Dispose(s) /\ breaches' = 0
    \/ Reaper /\ breaches' = 0

SpecLive ==
    /\ Init
    /\ [][NextLive]_vars
    /\ \A s \in Stores : SF_vars((Finish(s) \/ Dispose(s)) /\ breaches' = 0)
    /\ SF_vars(Reaper /\ breaches' = 0)

\* C25: every acquisition leaves a reaper callback queued, also after an
\* earlier callback has run, and a reaper run follows every acquisition of an
\* Unmanaged store.
C25_ReaperRearmsAndRuns ==
    /\ [](last.op = "start" => microtasks > 0)
    /\ [](\A s \in Stores : Open(s) => microtasks > 0)
    /\ (last.op = "start" /\ usage[last.s] = UNMANAGED) ~> (last.op = "reaper")

\* the reaper has run and closed a store, nothing is pending, and the next
\* acquisition queues a callback again
C25_Witness ==
    /\ last.op = "reaper"
    /\ last.s # None
    /\ microtasks = 0
    /\ ~finalCleanup
    /\ EnsureFinalCleanup(Queue).microtasks = 1

\* C26 as claimed: acquiring a store in a Managed mode while no reaper is
\* pending leaves none pending.
C26_ManagedStartLeavesReaperUnarmed ==
    \A u \in {MANAGED_COMPONENT, MANAGED_HOOK} :
        microtasks = 0 => ArmedBy(Queue, u).microtasks = 0

\* C26: acquiring a store in any usage mode while no reaper is pending arms
\* the reaper, and while one is pending leaves it as it is.
C26_EveryStartArmsReaper ==
    /\ \A u \in Usages :
           /\ ArmedBy(Queue, u).finalCleanup
           /\ ArmedBy(Queue, u).microtasks = 1
    /\ (last.op = "start" /\ usage[last.s] # UNMANAGED) => (finalCleanup /\ microtasks = 1)

\* the only store ever acquired is a Managed one and the reaper is pending
C26_Witness ==
    /\ last.op = "start"
    /\ created = {last.s}
    /\ usage[last.s] = MANAGED_COMPONENT
    /\ last.was = None
    /\ finalCleanup

CycleBits == 3

RECURSIVE IncTimes(_, _, _)
IncTimes(v, k, max) == IF k = 0 THEN v ELSE IncTimes(IncWrap(v, max), k - 1, max)

\* C28: a version is a signed 32-bit integer, 0 for a store not yet created;
\* the increment of the callback and of unsubscribe is version + 1 except that
\* the largest value 2^31 - 1 is followed by the smallest -2^31; and an
\* increment of this form on w bits returns to its starting value after 2^w
\* increments and not before.
C28_VersionWrapsAt32Bits ==
    /\ \A s \in Stores :
           /\ MinInt32 <= version[s] /\ version[s] <= MaxInt32
           /\ s \notin created => version[s] = 0
           /\ Inc32(version[s]) = IF version[s] = MaxInt32 THEN MinInt32 ELSE version[s] + 1
           /\ EffectCallback(Host, s).version[s] = Inc32(version[s])
           /\ UnsubscribeStore(Host, s).version[s] = Inc32(version[s])
    /\ Inc32(MaxInt32) = MinInt32
    /\ Inc32(MinInt32) = MinInt32 + 1
    /\ Inc32(0 - 1) = 0
    /\ MaxInt32 = (2^30 - 1) * 2 + 1
    /\ \A w \in 2..CycleBits :
           LET max == 2^(w - 1) - 1
               min == (0 - max) - 1
           IN  \A v \in min..max :
                   /\ IncTimes(v, 2^w, max) = v
                   /\ \A k \in 1..(2^w - 1) :
                          /\ IncTimes(v, k, max) # v
                          /\ IncTimes(v, k, max) \in min..max

\* an unsubscribe has taken a version from 2^31 - 1 to -2^31
C28_Witness ==
    /\ last.op = "unsubscribe"
    /\ version[last.s] = MinInt32
    /\ ~onChangeNotifyReact[last.s]

\* C29 as claimed: getSnapshot never returns a negative value.
C29_SnapshotNeverNegative ==
    \A s \in created : GetSnapshotStore(Host, s).value >= 0

\* C30: when the callback calls the host, the version has already been
\* incremented: the value getSnapshot returns during the call is the new
\* version, which differs from the old one and from the value the host read
\* last.
C30_VersionBumpedBeforeHostCalled ==
    /\ \A s \in created :
           onChangeNotifyReact[s] =>
               LET h == EffectCallback(Host, s)
               IN  /\ h.event.calls[s] = 1
                   /\ h.event.seen[s] = Inc32(version[s])
                   /\ h.event.seen[s] = GetSnapshotStore(h, s).value
                   /\ h.event.seen[s] # version[s]
                   /\ (last.op = "getSnapshot" /\ last.s = s) => h.event.seen[s] # last.was
    /\ \A s \in Stores :
           (s \in event.fired /\ event.calls[s] > 0) => event.seen[s] = version[s]

\* a write has notified a store whose host had read version 0 and is
\* subscribed: during the call the host saw version 1
C30_Witness ==
    /\ last.op = "write"
    /\ \E s \in event.fired :
           /\ event.calls[s] = 1
           /\ event.seen[s] = 1
           /\ version[s] = 1
           /\ onChangeNotifyReact[s]

\* ---- bookkeeping and the register -------------------------------------------
\* C31: in every state, f() on any store leaves that store with doRestore
\* false, no prevStore and no endEffect, whatever the three were; and after a
\* finish or a disposal the store has none of them.
C31_FinishConsumesBookkeeping ==
    /\ \A s \in Stores :
           LET f == StoreFinish(Runtime, s)
           IN  /\ ~f.doRestore[s]
               /\ f.prevStore[s] = None
               /\ f.endEffect[s] = NoCloser
               /\ \A t \in Stores \ {s} :
                      /\ f.doRestore[t] = doRestore[t]
                      /\ f.prevStore[t] = prevStore[t]
                      /\ f.endEffect[t] = endEffect[t]
    /\ last.op \in {"finish", "dispose"} =>
           /\ ~doRestore[last.s]
           /\ prevStore[last.s] = None
           /\ endEffect[last.s] = NoCloser

\* a nested store, which had all three set, has been finished
C31_Witness ==
    /\ last.op = "finish"
    /\ last.was # None
    /\ last.was # NotStarted
    /\ last.was # last.s
    /\ usage[last.s] = MANAGED_HOOK
    /\ usage[last.was] = MANAGED_COMPONENT
    /\ currentStore = last.was
    /\ prevStore[last.s] = None

\* the register of st is empty or holds a store that is started
RegisterOpen(st) ==
    st.currentStore # None => st.endEffect[st.currentStore] # NoCloser

\* a store that is started and is not the register: suspended beneath another
Suspended(s) == Open(s) /\ s # currentStore

RECURSIVE LinksEnd(_, _)
LinksEnd(s, n) ==
    IF s = None THEN TRUE
    ELSE IF n = 0 THEN FALSE
    ELSE LinksEnd(prevStore[s], n - 1)

\* C33 as claimed: no store is its own prevStore, and the prevStore links from
\* the register end at the empty register.
C33_SavedLinksAcyclic ==
    /\ \A s \in Stores : prevStore[s] # s
    /\ LinksEnd(currentStore, NumStores)

\* C34: when the reaper runs while the register is empty, its cleanup changes
\* nothing: stores, usages, register, bookkeeping, recording context, recorded
\* sources, versions and host callbacks are as before the run; only
\* finalCleanup is cleared and the queued callback is gone.
C34_ReaperOnEmptyRegisterOnlyDisarms ==
    [][ /\ currentStore = None => Cleanup(Runtime) = Runtime
        /\ (currentStore = None /\ last'.op = "reaper" /\ last' # last) =>
               /\ UNCHANGED <<created, usage, currentStore, version,
                              onChangeNotifyReact, doRestore, prevStore,
                              endEffect, evalContext, sources>>
               /\ finalCleanup /\ ~finalCleanup'
               /\ microtasks' = microtasks - 1
      ]_vars

\* the reaper has run on an empty register after a store was started, read a
\* signal and was finished in the turn
C34_Witness ==
    /\ last.op = "reaper"
    /\ last.s = None
    /\ currentStore = None
    /\ ~finalCleanup
    /\ \E s \in created : sources[s] # {} /\ ~Open(s) /\ usage[s] = MANAGED_COMPONENT

\* ---- subscriptions ----------------------------------------------------------
\* C35 as claimed: after subscribe(cb1) and then subscribe(cb2) on a store,
\* the function the first call returned leaves a callback registered, and a
\* later notification of the store calls it.
C35_UnsubscribeRemovesOwnCallbackOnly ==
    \A s \in created :
        LET first     == SubscribeStore(Host, s)
            second    == SubscribeStore(first, s)
            unsubbed  == UnsubscribeStore(second, s)
        IN  /\ second.onChange[s]
            /\ unsubbed.onChange[s]
            /\ EffectCallback(unsubbed, s).event.calls[s] = 1

\* C36: once the unsubscribe function has run on a store, a batch of writes
\* to any signals, those it had recorded included, does not run its callback:
\* its version stays and its host is not called; a store that is not started
\* has nothing recorded after its unsubscribe, and when the store is started
\* again and reads a signal, a write to that signal notifies it again.
C36_UnsubscribeDetachesSources ==
    /\ \A s \in created :
           LET off == UnsubscribeStore(Host, s)
           IN  /\ \A W \in SUBSET BatchSignals :
                      LET w == RunCallbacks(off, Notified(off, W))
                      IN  /\ s \notin Notified(off, W)
                          /\ w.version[s] = off.version[s]
                          /\ w.event.calls[s] = 0
                          /\ s \notin w.event.fired
               /\ \A g \in BatchSignals :
                      LET started == StoreStart([Runtime EXCEPT !.sources = off.sources], s, usage)
                          again   == RecordRead(started, g)
                      IN  started.currentStore = s =>
                              s \in Notified([off EXCEPT !.sources = again.sources], {g})
    /\ (last.op = "unsubscribe" /\ ~Open(last.s)) => sources[last.s] = {}

\* the unsubscribe function has run on a finished store that had recorded
\* every signal and had been notified once
C36_Witness ==
    /\ last.op = "unsubscribe"
    /\ last.was = NumBatchSignals
    /\ ~Open(last.s)
    /\ sources[last.s] = {}
    /\ version[last.s] = 2
    /\ ~onChangeNotifyReact[last.s]

\* C37: a step changes a store's version only if it runs that store's
\* callback or its unsubscribe function, and then to the next version; it
\* changes a store's host callback only if it is a subscribe or unsubscribe of
\* that store. So useSignals/_start, f, the disposal hook, getSnapshot and the
\* reaper change neither, and subscribe changes no version.
C37_VersionAndCallbackFrame ==
    [][ /\ \A s \in Stores :
               /\ version'[s] # version[s] =>
                      /\ version'[s] = Inc32(version[s])
                      /\ \/ last'.op = "write" /\ s \in event'.fired
                         \/ last'.op = "unsubscribe" /\ last'.s = s
               /\ onChangeNotifyReact'[s] # onChangeNotifyReact[s] =>
                      /\ last'.op \in {"subscribe", "unsubscribe"}
                      /\ last'.s = s
               /\ SubscribeStore(Host, s).version = version
               /\ GetSnapshotStore(Host, s).host.version = version
               /\ GetSnapshotStore(Host, s).host.onChange = onChangeNotifyReact
        /\ (last' # last /\ last'.op \in {"start", "finish", "dispose", "reaper", "getSnapshot"}) =>
               UNCHANGED <<version, onChangeNotifyReact>>
        /\ (last' # last /\ last'.op = "subscribe") => UNCHANGED version
      ]_vars

\* the disposal hook has run on a store that is subscribed and whose version
\* has been incremented: both are as they were
C37_Witness ==
    /\ last.op = "dispose"
    /\ version[last.s] = 1
    /\ onChangeNotifyReact[last.s]
    /\ ~Open(last.s)

\* ---- the usage mode ---------------------------------------------------------
\* C38: no step changes the usage of a store that exists; useSignals for an
\* instance whose store exists keeps the store's usage whatever mode it is
\* called with, and its _start() behaves as the store's own usage prescribes.
C38_UsageFixedAtCreation ==
    [][ /\ \A s \in created :
               /\ usage'[s] = usage[s]
               /\ s \in created'
               /\ \A u \in Usages : StoreRef(created, usage, s, u) = usage
        /\ \A s \in Stores \ created :
               s \in created' => \E u \in Usages : usage'[s] = u /\ last'.s = s
        /\ (last' # last /\ last'.op = "start" /\ last'.s \in created) =>
               Runtime' = StoreStart(Runtime, last'.s, usage)
      ]_vars

\* store 1, a hook's, was created before store 2 and is acquired again while
\* the Unmanaged store 2 is the register: it nests, as its own usage says
C38_Witness ==
    /\ last.op = "start"
    /\ last.s = 1
    /\ last.was = 2
    /\ usage[1] = MANAGED_HOOK
    /\ usage[2] = UNMANAGED
    /\ prevStore[1] = 2
    /\ Open(2)

\* ---- wrapJsx ----------------------------------------------------------------
\* the wrapper's loop without its test for "children"
UnwrappedWithChildren(type, props, value) ==
    IF type.isString /\ props.present
    THEN [props EXCEPT !.map =
              [i \in DOMAIN props.map |->
                  IF props.map[i].isSignal
                  THEN [isSignal |-> FALSE, v |-> value[props.map[i].v]]
                  ELSE props.map[i]]]
    ELSE props

\* the wrapper's loop: for a string type and present props, every prop other
\* than children that holds a Signal is assigned the signal's value
Unwrapped(type, props, value) ==
    IF type.isString /\ props.present
    THEN [props EXCEPT !.map =
              [i \in DOMAIN props.map |->
                  IF i # "children" /\ props.map[i].isSignal
                  THEN [isSignal |-> FALSE, v |-> value[props.map[i].v]]
                  ELSE props.map[i]]]
    ELSE props

\* the signals whose value the wrapper's loop reads
ValuesRead(type, props) ==
    IF type.isString /\ props.present
    THEN {props.map[i].v : i \in {j \in DOMAIN props.map :
                                      j # "children" /\ props.map[j].isSignal}}
    ELSE {}

\* wrapJsx(jsx): jsx itself unless it is a function, else a new function
WrapJsx(jsx) ==
    IF ~jsx.isFunction THEN jsx
    ELSE [isFunction |-> TRUE, id |-> jsx.id + 1, wraps |-> jsx.id]

\* what the wrapper w passes on: jsx.call(jsx, type, props, ...rest)
WrapperCall(w, type, props, rest, value) ==
    [fn |-> w.wraps, this |-> w.wraps, type |-> type,
     props |-> Unwrapped(type, props, value), rest |-> rest]

RECURSIVE RecordReads(_, _)
RecordReads(st, G) ==
    IF G = {} THEN st
    ELSE LET g == CHOOSE x \in G : TRUE
         IN  RecordReads(RecordRead(st, g), G \ {g})

\* a caller has a value to wrap and arguments for the wrapper
InitJsx ==
    /\ InitStores
    /\ \E j \in JsxArguments, ty \in Types, pr \in Props,
          val \in [1..NumBatchSignals -> SignalValues] :
           jsxCall = [phase |-> "args", jsx |-> j, type |-> ty, props |-> pr,
                      rest |-> <<"key">>, value |-> val,
                      returned |-> NoFunction, passed |-> NoPassed]

\* the call wrapJsx(jsx)
WrapJsxReturns ==
    /\ jsxCall.phase = "args"
    /\ jsxCall' = [jsxCall EXCEPT !.phase = "wrapped", !.returned = WrapJsx(jsxCall.jsx)]
    /\ UNCHANGED <<created, usage, currentStore, version, onChangeNotifyReact,
                   doRestore, prevStore, endEffect, finalCleanup, microtasks,
                   evalContext, sources, before, last, event, breaches>>

\* the call of the wrapper; its loop assigns to the caller's props object
WrapperCalled ==
    /\ jsxCall.phase = "wrapped"
    /\ jsxCall.returned.isFunction
    /\ LET passed == WrapperCall(jsxCall.returned, jsxCall.type, jsxCall.props,
                                 jsxCall.rest, jsxCall.value)
       IN  jsxCall' = [jsxCall EXCEPT !.phase = "called", !.passed = passed,
                                      !.props = passed.props]
    /\ sources' = RecordReads(Runtime, ValuesRead(jsxCall.type, jsxCall.props)).sources
    /\ UNCHANGED <<created, usage, currentStore, version, onChangeNotifyReact,
                   doRestore, prevStore, endEffect, finalCleanup, microtasks,
                   evalContext, before, last, event, breaches>>

NextJsx ==
    \/ WrapJsxReturns
    \/ WrapperCalled

SpecJsx == InitJsx /\ [][NextJsx]_vars

\* C39: wrapJsx returns an argument that is not a function as it is, and for
\* a function a wrapper of it. The wrapper calls the function with the same
\* type and remaining arguments; when type is a string and props is present it
\* passes props in which every prop but children that held a Signal holds that
\* signal's value and every other prop is as it was; otherwise it passes props
\* as they are.
C39_WrapJsxUnwrapsSignalProps ==
    /\ jsxCall.phase # "none"
    /\ ~jsxCall.jsx.isFunction => WrapJsx(jsxCall.jsx) = jsxCall.jsx
    /\ jsxCall.jsx.isFunction =>
           LET w  == WrapJsx(jsxCall.jsx)
               given == jsxCall.props
               p  == WrapperCall(w, jsxCall.type, given, jsxCall.rest, jsxCall.value)
           IN  /\ w.isFunction /\ w # jsxCall.jsx /\ w.wraps = jsxCall.jsx.id
               /\ p.fn = jsxCall.jsx.id
               /\ p.type = jsxCall.type
               /\ p.rest = jsxCall.rest
               /\ (jsxCall.type.isString /\ given.present) =>
                      /\ p.props.present
                      /\ DOMAIN p.props.map = DOMAIN given.map
                      /\ \A i \in DOMAIN given.map :
                             p.props.map[i] =
                                 IF i # "children" /\ given.map[i].isSignal
                                 THEN [isSignal |-> FALSE, v |-> jsxCall.value[given.map[i].v]]
                                 ELSE given.map[i]
               /\ ~(jsxCall.type.isString /\ given.present) => p.props = given
    /\ jsxCall.phase = "wrapped" => jsxCall.returned = WrapJsx(jsxCall.jsx)
    /\ jsxCall.phase = "called" =>
           /\ jsxCall.passed.fn = jsxCall.jsx.id
           /\ jsxCall.passed.type = jsxCall.type
           /\ jsxCall.passed.rest = jsxCall.rest
           /\ jsxCall.passed.props = jsxCall.props
           /\ (jsxCall.type.isString /\ jsxCall.props.present) =>
                  \A i \in DOMAIN jsxCall.props.map \ {"children"} :
                      ~jsxCall.props.map[i].isSignal

\* the wrapper was called for a "div" whose children and title were Signals:
\* children still is one, title holds the signal's value
C39_Witness ==
    /\ jsxCall.phase = "called"
    /\ jsxCall.type.isString
    /\ jsxCall.passed.props.present
    /\ DOMAIN jsxCall.passed.props.map = PropNames
    /\ jsxCall.passed.props.map["children"].isSignal
    /\ ~jsxCall.passed.props.map["title"].isSignal
    /\ jsxCall.passed.props.map["title"].v \in SignalValues

====
